---- MODULE Spec2Model ----
(***************************************************************************)
(* Model of the batching log hook of src/app/main.go: ClickHouseHook with  *)
(* NewClickHouseHook, Fire and flush, the transactional store they write   *)
(* to through database/sql, and the host program main.                     *)
(*                                                                         *)
(* Fire and flush are modelled statement by statement: every caller has a  *)
(* program counter, so that the states between the append, the threshold   *)
(* check, the insert loop and the buffer clear are states of the model.    *)
(***************************************************************************)
EXTENDS Integers, Sequences, FiniteSets, TLC

(* ---- bounds of the model ---- *)
MaxFires == 10
MaxFlushCalls == 2
MaxBatch == 5
MaxFiresFaulty == 5
MaxBatchFaulty == 3
MaxFiresRace == 2
MaxFlushCallsRace == 1
MaxBatchRace == 2
MaxNonPositive == 2

(* ---- program constants ---- *)
MainBatchSize == 5
MainIterations == 10

Procs == {1, 2}

VARIABLES
  active,     \* the callers (goroutines) that call Fire and flush
  guard,      \* "none", or "mutex" when the callers wrap every call in one lock
  entries,    \* hook.entries
  batchSize,  \* hook.batchSize
  hookMade,   \* TRUE once NewClickHouseHook returned a hook
  dbState,    \* hook.db: "none", "open", "closed"
  committed,  \* the store: sequence of committed batches, in commit order
  openTx,     \* transactions begun and neither committed nor rolled back
  pc,         \* per caller: statement the caller is at
  call,       \* per caller: the outermost call in progress or last returned
  arg,        \* per caller: the entry passed to Fire
  hdr,        \* per caller: hook.entries as read by the append of line 38
  rng,        \* per caller: the slice the range loop of line 60 iterates
  idx,        \* per caller: position of the range loop
  txRows,     \* per caller: rows inserted in the caller's transaction
  flushRet,   \* per caller: what flush returned
  fireRet,    \* per caller: what Fire returned
  mpc,        \* main: "harness" (no main), "new", "loop", "final", "exited"
  iter,       \* main: loop counter i
  exitCode,   \* process: -1 while running, else the exit status
  ctorRet,    \* what NewClickHouseHook returned: "none", "hook", "err"
  connFail,   \* which connection step failed: "none", "open", "ping"
  fired,      \* history: entries passed to Fire, in call order
  flushCalls, \* history: number of explicit flush calls
  triggered,  \* history: number of flushes triggered by Fire
  snapE,      \* history, per caller: hook.entries when the call started
  fsnapE,     \* history, per caller: hook.entries when flush started
  fsnapC,     \* history, per caller: the store when flush started
  ops,        \* history, per caller: store operations of the current call
  begins,     \* history, per caller: calls of db.Begin in the current call
  lastFailed  \* history: the most recent flush to end has failed

hookVars == <<entries, batchSize, hookMade, dbState>>
storeVars == <<committed, openTx>>
callerVars == <<active, guard, pc, call, arg, hdr, rng, idx, txRows, flushRet, fireRet>>
mainVars == <<mpc, iter, exitCode, ctorRet, connFail>>
histVars == <<fired, flushCalls, triggered, snapE, fsnapE, fsnapC, ops, begins,
              lastFailed>>
vars == <<hookVars, storeVars, callerVars, mainVars, histVars>>

(* ---- pure helpers ---- *)
RECURSIVE Flatten(_)
Flatten(bs) == IF bs = <<>> THEN <<>> ELSE Head(bs) \o Flatten(Tail(bs))

Ceil(n, b) == (n + b - 1) \div b

(* the comparison of line 39 written with > *)
ShouldFlushStrict(n, b) == n > b

(* a range loop that starts at the second entry *)
RangeSkipFirst(es) == IF es = <<>> THEN es ELSE Tail(es)

(* a flush that returns without line 71 *)
KeepEntries(es) == es

(* a statement prepared on hook.db instead of tx: every row it inserts is
   stored at once, outside the transaction *)
ExecAutocommit(cmt, e) == Append(cmt, <<e>>)

(* a Fire that drops the error of flush *)
FireResultDropped(err) == "nil"

(* a loop that stops one entry early *)
LoopPcShort(r, i) == IF i >= Len(r) THEN "commit" ELSE "exec"

(* a loop after which flush clears the buffer without committing *)
LoopPcNoCommit(r, i) == IF i > Len(r) THEN "clear" ELSE "exec"

(* the comparison of line 39 written with = *)
ShouldFlushEqual(n, b) == n = b

(* a threshold test that never fires for a batch size that is not positive *)
ShouldFlushPositive(n, b) == b > 0 /\ n >= b

(* line 38: hook.entries = append(hook.entries, *entry) *)
AppendEntry(es, e) == Append(es, e)

(* line 39: len(hook.entries) >= hook.batchSize *)
ShouldFlush(n, b) == n >= b

(* lines 54 and 61: the statement is prepared on tx, so a row it inserts is
   part of the transaction and changes nothing visible in the store *)
ExecVisible(cmt, e) == cmt

(* line 60: for _, entry := range hook.entries *)
RangeEntries(es) == es

(* line 71: hook.entries = nil *)
ClearEntries(es) == <<>>

(* lines 40-44: Fire returns the error of flush, nil otherwise *)
FireResult(err) == err

(* position after the loop header of line 60 has been evaluated *)
LoopPc(r, i) == IF i > Len(r) THEN "commit" ELSE "exec"

(* ---- initial states ---- *)
InitCallersWith(cs, g) ==
  /\ active = cs
  /\ guard = g
  /\ pc = [c \in Procs |-> "idle"]
  /\ call = [c \in Procs |-> "none"]
  /\ arg = [c \in Procs |-> 0]
  /\ hdr = [c \in Procs |-> <<>>]
  /\ rng = [c \in Procs |-> <<>>]
  /\ idx = [c \in Procs |-> 0]
  /\ txRows = [c \in Procs |-> <<>>]
  /\ flushRet = [c \in Procs |-> "nil"]
  /\ fireRet = [c \in Procs |-> "nil"]

(* callers that call the hook without any lock around their calls *)
InitCallers(cs) == InitCallersWith(cs, "none")

InitHist ==
  /\ fired = <<>>
  /\ flushCalls = 0
  /\ triggered = 0
  /\ snapE = [c \in Procs |-> <<>>]
  /\ fsnapE = [c \in Procs |-> <<>>]
  /\ fsnapC = [c \in Procs |-> <<>>]
  /\ ops = [c \in Procs |-> 0]
  /\ begins = [c \in Procs |-> 0]
  /\ lastFailed = FALSE

InitStore ==
  /\ committed = <<>>
  /\ openTx = 0

(* a hook as NewClickHouseHook returns it, line 33 *)
InitHook(b) ==
  /\ entries = <<>>
  /\ batchSize = b
  /\ hookMade = TRUE
  /\ dbState = "open"
  /\ mpc = "harness"
  /\ iter = 0
  /\ exitCode = -1
  /\ ctorRet = "hook"
  /\ connFail = "none"

Init ==
  /\ \E b \in 1..MaxBatch : InitHook(b)
  /\ InitStore /\ InitCallers({1}) /\ InitHist

InitFaulty ==
  /\ \E b \in 1..MaxBatchFaulty : InitHook(b)
  /\ InitStore /\ InitCallers({1}) /\ InitHist

(* NewClickHouseHook stores any batchSize it is given, line 33: hooks made
   with 1 and with the batch sizes below 1 *)
InitAnyBatch ==
  /\ \E b \in (1 - MaxNonPositive)..1 : InitHook(b)
  /\ InitStore /\ InitCallers({1}) /\ InitHist

(* one caller, two callers without a lock, or two callers with one lock
   around every call *)
InitRace ==
  /\ \E b \in 1..MaxBatchRace : InitHook(b)
  /\ \E m \in {<<{1}, "none">>, <<{1, 2}, "none">>, <<{1, 2}, "mutex">>} :
       InitCallersWith(m[1], m[2])
  /\ InitStore /\ InitHist

(* the process before main has run line 85 *)
InitMain ==
  /\ entries = <<>>
  /\ batchSize = 0
  /\ hookMade = FALSE
  /\ dbState = "none"
  /\ mpc = "new"
  /\ iter = 0
  /\ exitCode = -1
  /\ ctorRet = "none"
  /\ connFail = "none"
  /\ InitStore /\ InitCallers({1}) /\ InitHist

(* ---- calls made by a caller of the hook ---- *)
StartCall(c, kind) ==
  /\ call' = [call EXCEPT ![c] = kind]
  /\ snapE' = [snapE EXCEPT ![c] = entries]
  /\ ops' = [ops EXCEPT ![c] = 0]
  /\ begins' = [begins EXCEPT ![c] = 0]
  /\ flushRet' = [flushRet EXCEPT ![c] = "nil"]
  /\ fireRet' = [fireRet EXCEPT ![c] = "nil"]

(* entry into flush, line 48 *)
EnterFlush(c) ==
  /\ fsnapE' = [fsnapE EXCEPT ![c] = entries]
  /\ fsnapC' = [fsnapC EXCEPT ![c] = committed]

(* hook.Fire(entry) is entered with a fresh entry *)
EnterFire(c) ==
  /\ pc[c] = "idle" /\ hookMade /\ exitCode = -1
  /\ StartCall(c, "Fire")
  /\ arg' = [arg EXCEPT ![c] = Len(fired) + 1]
  /\ fired' = Append(fired, Len(fired) + 1)
  /\ pc' = [pc EXCEPT ![c] = "fire_read"]
  /\ UNCHANGED <<hookVars, storeVars, active, guard, hdr, rng, idx, txRows,
                 flushCalls, triggered, fsnapE, fsnapC, lastFailed>>

(* hook.flush() is entered from outside Fire *)
EnterFlushCall(c) ==
  /\ pc[c] = "idle" /\ hookMade /\ exitCode = -1
  /\ StartCall(c, "flush")
  /\ EnterFlush(c)
  /\ flushCalls' = flushCalls + 1
  /\ pc' = [pc EXCEPT ![c] = "begin"]
  /\ UNCHANGED <<hookVars, storeVars, active, guard, arg, hdr, rng, idx, txRows,
                 fired, triggered, lastFailed>>

(* a caller of an already constructed hook calls Fire *)
CallFire(c, max) ==
  /\ mpc = "harness"
  /\ Len(fired) < max
  /\ EnterFire(c)
  /\ UNCHANGED mainVars

(* a caller of an already constructed hook calls flush *)
CallFlush(c, max) ==
  /\ mpc = "harness"
  /\ flushCalls < max
  /\ EnterFlushCall(c)
  /\ UNCHANGED mainVars

(* the mutual-exclusion guard the callers may wrap every call in: a call is
   entered only while no other caller is inside a call *)
MutexFree(c) ==
  guard = "mutex" => \A d \in active \ {c} : pc[d] = "idle"

(* ---- ClickHouseHook.Fire, lines 37-45 ---- *)
\* line 38, the read of hook.entries
FireRead(c) ==
  /\ pc[c] = "fire_read"
  /\ hdr' = [hdr EXCEPT ![c] = entries]
  /\ pc' = [pc EXCEPT ![c] = "fire_append"]
  /\ UNCHANGED <<hookVars, storeVars, mainVars, histVars, active, guard, call, arg,
                 rng, idx, txRows, flushRet, fireRet>>

\* line 38, the write of hook.entries
FireAppend(c) ==
  /\ pc[c] = "fire_append"
  /\ entries' = AppendEntry(hdr[c], arg[c])
  /\ pc' = [pc EXCEPT ![c] = "fire_check"]
  /\ UNCHANGED <<batchSize, hookMade, dbState, storeVars, mainVars, histVars,
                 active, guard, call, arg, hdr, rng, idx, txRows, flushRet, fireRet>>

\* line 39 true: line 40 calls flush
FireCheckFlush(c) ==
  /\ pc[c] = "fire_check"
  /\ ShouldFlush(Len(entries), batchSize)
  /\ EnterFlush(c)
  /\ triggered' = triggered + 1
  /\ pc' = [pc EXCEPT ![c] = "begin"]
  /\ UNCHANGED <<hookVars, storeVars, mainVars, active, guard, call, arg, hdr, rng,
                 idx, txRows, flushRet, fireRet, fired, flushCalls, snapE, ops, begins,
                 lastFailed>>

\* line 39 false: line 44 returns nil
FireCheckSkip(c) ==
  /\ pc[c] = "fire_check"
  /\ ~ShouldFlush(Len(entries), batchSize)
  /\ fireRet' = [fireRet EXCEPT ![c] = "nil"]
  /\ pc' = [pc EXCEPT ![c] = "idle"]
  /\ UNCHANGED <<hookVars, storeVars, mainVars, histVars, active, guard, call, arg,
                 hdr, rng, idx, txRows, flushRet>>

\* lines 40-44, after flush has returned
FireReturn(c) ==
  /\ pc[c] = "fire_ret"
  /\ fireRet' = [fireRet EXCEPT ![c] = FireResult(flushRet[c])]
  /\ pc' = [pc EXCEPT ![c] = "idle"]
  /\ UNCHANGED <<hookVars, storeVars, mainVars, histVars, active, guard, call, arg,
                 hdr, rng, idx, txRows, flushRet>>

(* ---- ClickHouseHook.flush, lines 48-73 ---- *)
StoreOp(c) ==
  /\ ops' = [ops EXCEPT ![c] = ops[c] + 1]
  /\ UNCHANGED begins

\* db.Begin is a store operation
BeginOp(c) ==
  /\ ops' = [ops EXCEPT ![c] = ops[c] + 1]
  /\ begins' = [begins EXCEPT ![c] = begins[c] + 1]

\* a flush that starts over after a failed step
RetryAfterFailure(err) == "begin"

\* where flush goes on after one of its steps has failed: it returns
AfterFailure(err) == "flush_ret"

\* a return err of lines 51, 56, 62, 67
FlushFails(c, err) ==
  /\ flushRet' = [flushRet EXCEPT ![c] = err]
  /\ lastFailed' = TRUE
  /\ pc' = [pc EXCEPT ![c] = AfterFailure(err)]

\* line 49, hook.db.Begin() succeeds
BeginOK(c) ==
  /\ pc[c] = "begin"
  /\ openTx' = openTx + 1
  /\ txRows' = [txRows EXCEPT ![c] = <<>>]
  /\ BeginOp(c)
  /\ pc' = [pc EXCEPT ![c] = "prepare"]
  /\ UNCHANGED <<hookVars, committed, mainVars, active, guard, call, arg, hdr, rng,
                 idx, flushRet, fireRet, fired, flushCalls, triggered, snapE,
                 fsnapE, fsnapC, lastFailed>>

\* lines 49-52, hook.db.Begin() fails
BeginFail(c) ==
  /\ pc[c] = "begin"
  /\ BeginOp(c)
  /\ FlushFails(c, "ErrBegin")
  /\ UNCHANGED <<hookVars, storeVars, mainVars, active, guard, call, arg, hdr, rng,
                 idx, txRows, fireRet, fired, flushCalls, triggered, snapE,
                 fsnapE, fsnapC>>

\* line 54, tx.Prepare succeeds; line 58 defers stmt.Close()
PrepareOK(c) ==
  /\ pc[c] = "prepare"
  /\ StoreOp(c)
  /\ pc' = [pc EXCEPT ![c] = "range"]
  /\ UNCHANGED <<hookVars, storeVars, mainVars, active, guard, call, arg, hdr, rng,
                 idx, txRows, flushRet, fireRet, fired, flushCalls, triggered,
                 snapE, fsnapE, fsnapC, lastFailed>>

\* lines 54-57, tx.Prepare fails: flush returns, the transaction stays open
PrepareFail(c) ==
  /\ pc[c] = "prepare"
  /\ StoreOp(c)
  /\ FlushFails(c, "ErrPrepare")
  /\ UNCHANGED <<hookVars, storeVars, mainVars, active, guard, call, arg, hdr, rng,
                 idx, txRows, fireRet, fired, flushCalls, triggered, snapE,
                 fsnapE, fsnapC>>

\* line 60, the range expression is evaluated once
RangeStart(c) ==
  /\ pc[c] = "range"
  /\ rng' = [rng EXCEPT ![c] = RangeEntries(entries)]
  /\ idx' = [idx EXCEPT ![c] = 1]
  /\ pc' = [pc EXCEPT ![c] = LoopPc(RangeEntries(entries), 1)]
  /\ UNCHANGED <<hookVars, storeVars, mainVars, histVars, active, guard, call, arg,
                 hdr, txRows, flushRet, fireRet>>

\* line 61, stmt.Exec succeeds for the entry the loop is at
ExecOK(c) ==
  /\ pc[c] = "exec"
  /\ txRows' = [txRows EXCEPT ![c] = Append(txRows[c], rng[c][idx[c]])]
  /\ committed' = ExecVisible(committed, rng[c][idx[c]])
  /\ idx' = [idx EXCEPT ![c] = idx[c] + 1]
  /\ StoreOp(c)
  /\ pc' = [pc EXCEPT ![c] = LoopPc(rng[c], idx[c] + 1)]
  /\ UNCHANGED <<hookVars, openTx, mainVars, active, guard, call, arg, hdr, rng,
                 flushRet, fireRet, fired, flushCalls, triggered, snapE,
                 fsnapE, fsnapC, lastFailed>>

\* lines 61-63, stmt.Exec fails: flush returns, the transaction stays open
ExecFail(c) ==
  /\ pc[c] = "exec"
  /\ StoreOp(c)
  /\ FlushFails(c, "ErrExec")
  /\ UNCHANGED <<hookVars, storeVars, mainVars, active, guard, call, arg, hdr, rng,
                 idx, txRows, fireRet, fired, flushCalls, triggered, snapE,
                 fsnapE, fsnapC>>

\* line 66, tx.Commit succeeds: the rows of the transaction become a batch
CommitOK(c) ==
  /\ pc[c] = "commit"
  /\ committed' = Append(committed, txRows[c])
  /\ openTx' = openTx - 1
  /\ StoreOp(c)
  /\ pc' = [pc EXCEPT ![c] = "clear"]
  /\ UNCHANGED <<hookVars, mainVars, active, guard, call, arg, hdr, rng, idx, txRows,
                 flushRet, fireRet, fired, flushCalls, triggered, snapE,
                 fsnapE, fsnapC, lastFailed>>

\* lines 66-68, tx.Commit fails: database/sql ends the transaction, nothing
\* of it is stored
CommitFail(c) ==
  /\ pc[c] = "commit"
  /\ openTx' = openTx - 1
  /\ StoreOp(c)
  /\ FlushFails(c, "ErrCommit")
  /\ UNCHANGED <<hookVars, committed, mainVars, active, guard, call, arg, hdr, rng,
                 idx, txRows, fireRet, fired, flushCalls, triggered, snapE,
                 fsnapE, fsnapC>>

\* lines 71-72, hook.entries = nil; return nil
Clear(c) ==
  /\ pc[c] = "clear"
  /\ entries' = ClearEntries(entries)
  /\ flushRet' = [flushRet EXCEPT ![c] = "nil"]
  /\ lastFailed' = FALSE
  /\ pc' = [pc EXCEPT ![c] = "flush_ret"]
  /\ UNCHANGED <<batchSize, hookMade, dbState, storeVars, mainVars, active, guard,
                 call, arg, hdr, rng, idx, txRows, fireRet, fired, flushCalls,
                 triggered, snapE, fsnapE, fsnapC, ops, begins>>

\* flush returns to Fire (line 40) or to the caller of flush
FlushReturn(c) ==
  /\ pc[c] = "flush_ret"
  /\ pc' = [pc EXCEPT ![c] = IF call[c] = "Fire" THEN "fire_ret" ELSE "idle"]
  /\ UNCHANGED <<hookVars, storeVars, mainVars, histVars, active, guard, call, arg,
                 hdr, rng, idx, txRows, flushRet, fireRet>>

(* ---- NewClickHouseHook, lines 21-34 ---- *)
\* lines 22-25, sql.Open fails: return nil, err
NewOpenFail ==
  /\ mpc = "new"
  /\ connFail' = "open"
  /\ ctorRet' = "err"
  /\ mpc' = "newret"
  /\ UNCHANGED <<hookVars, storeVars, callerVars, histVars, iter, exitCode>>

\* lines 26-32, db.Ping fails: log.Fatal ends the process inside the call
NewPingFail ==
  /\ mpc = "new"
  /\ connFail' = "ping"
  /\ dbState' = "open"
  /\ exitCode' = 1
  /\ mpc' = "exited"
  /\ UNCHANGED <<entries, batchSize, hookMade, storeVars, callerVars, histVars,
                 iter, ctorRet>>

\* line 33, open and ping succeeded: return the hook
NewOK ==
  /\ mpc = "new"
  /\ dbState' = "open"
  /\ hookMade' = TRUE
  /\ entries' = <<>>
  /\ batchSize' = MainBatchSize
  /\ ctorRet' = "hook"
  /\ mpc' = "newret"
  /\ UNCHANGED <<storeVars, callerVars, histVars, iter, exitCode, connFail>>

(* ---- main, lines 80-114 ---- *)
\* lines 86-88, err != nil: log.Fatalf
MainConnectFatal ==
  /\ mpc = "newret" /\ ctorRet = "err"
  /\ exitCode' = 1
  /\ mpc' = "exited"
  /\ UNCHANGED <<hookVars, storeVars, callerVars, histVars, iter, ctorRet,
                 connFail>>

\* lines 89-97, defer hook.db.Close(); the logger gets the hook
MainSetup ==
  /\ mpc = "newret" /\ ctorRet = "hook"
  /\ mpc' = "loop"
  /\ UNCHANGED <<hookVars, storeVars, callerVars, histVars, iter, exitCode,
                 ctorRet, connFail>>

\* lines 100-103, i < 10: logger.Info fires the hook
MainLog ==
  /\ mpc = "loop" /\ iter < MainIterations
  /\ EnterFire(1)
  /\ mpc' = "logging"
  /\ UNCHANGED <<iter, exitCode, ctorRet, connFail>>

\* lines 103-105, Fire has returned; logrus reports its error on stderr and
\* goes on; i++
MainLogged ==
  /\ mpc = "logging" /\ pc[1] = "idle"
  /\ iter' = iter + 1
  /\ mpc' = "loop"
  /\ UNCHANGED <<hookVars, storeVars, callerVars, histVars, exitCode, ctorRet,
                 connFail>>

\* line 109, the loop is over: hook.flush()
MainFinalFlush ==
  /\ mpc = "loop" /\ iter >= MainIterations
  /\ EnterFlushCall(1)
  /\ mpc' = "final"
  /\ UNCHANGED <<iter, exitCode, ctorRet, connFail>>

\* what the deferred call of line 89 leaves of the handle when main ends
\* through log.Fatalf: os.Exit runs no deferred call
FatalExitDb(st) == st

\* lines 109-111, the final flush failed: log.Fatalf
MainFlushFatal ==
  /\ mpc = "final" /\ pc[1] = "idle" /\ flushRet[1] # "nil"
  /\ dbState' = FatalExitDb(dbState)
  /\ exitCode' = 1
  /\ mpc' = "exited"
  /\ UNCHANGED <<entries, batchSize, hookMade, storeVars, callerVars, histVars,
                 iter, ctorRet, connFail>>

\* lines 113-114, main returns: the deferred hook.db.Close() runs
MainReturn ==
  /\ mpc = "final" /\ pc[1] = "idle" /\ flushRet[1] = "nil"
  /\ dbState' = "closed"
  /\ exitCode' = 0
  /\ mpc' = "exited"
  /\ UNCHANGED <<entries, batchSize, hookMade, storeVars, callerVars, histVars,
                 iter, ctorRet, connFail>>

(* ---- the steps of Next, one per statement ---- *)
HarnessFire == \E c \in active : CallFire(c, MaxFires)
HarnessFlush == \E c \in active : CallFlush(c, MaxFlushCalls)
HarnessFireFaulty == \E c \in active : CallFire(c, MaxFiresFaulty)
DoFireRead == \E c \in active : FireRead(c)
DoFireAppend == \E c \in active : FireAppend(c)
DoFireCheckFlush == \E c \in active : FireCheckFlush(c)
DoFireCheckSkip == \E c \in active : FireCheckSkip(c)
DoFireReturn == \E c \in active : FireReturn(c)
DoBeginOK == \E c \in active : BeginOK(c)
DoBeginFail == \E c \in active : BeginFail(c)
DoPrepareOK == \E c \in active : PrepareOK(c)
DoPrepareFail == \E c \in active : PrepareFail(c)
DoRangeStart == \E c \in active : RangeStart(c)
DoExecOK == \E c \in active : ExecOK(c)
DoExecFail == \E c \in active : ExecFail(c)
DoCommitOK == \E c \in active : CommitOK(c)
DoCommitFail == \E c \in active : CommitFail(c)
DoClear == \E c \in active : Clear(c)
DoFlushReturn == \E c \in active : FlushReturn(c)

RaceFire == \E c \in active : MutexFree(c) /\ CallFire(c, MaxFiresRace)
RaceFlush == \E c \in active : MutexFree(c) /\ CallFlush(c, MaxFlushCallsRace)

\* Fire and flush against a store on which every step succeeds
HookStepsOK ==
  \/ DoFireRead \/ DoFireAppend \/ DoFireCheckFlush \/ DoFireCheckSkip
  \/ DoFireReturn \/ DoBeginOK \/ DoPrepareOK \/ DoRangeStart \/ DoExecOK
  \/ DoCommitOK \/ DoClear \/ DoFlushReturn

\* the failures of a store on which any step may fail
StoreFailures == DoBeginFail \/ DoPrepareFail \/ DoExecFail \/ DoCommitFail

Next == HarnessFire \/ HarnessFlush \/ HookStepsOK

Spec == Init /\ [][Next]_vars

NextFaulty == HarnessFireFaulty \/ HarnessFlush \/ HookStepsOK \/ StoreFailures

SpecFaulty == InitFaulty /\ [][NextFaulty]_vars
NextRace == RaceFire \/ RaceFlush \/ HookStepsOK

SpecRace == InitRace /\ [][NextRace]_vars

\* with batchSize <= 1 the test of line 39 is true after every append
NextAnyBatch ==
  \/ HarnessFire \/ HarnessFlush
  \/ DoFireRead \/ DoFireAppend \/ DoFireCheckFlush \/ DoFireReturn
  \/ DoBeginOK \/ DoPrepareOK \/ DoRangeStart \/ DoExecOK \/ DoCommitOK
  \/ DoClear \/ DoFlushReturn

SpecAnyBatch == InitAnyBatch /\ [][NextAnyBatch]_vars

MainSteps ==
  \/ NewOpenFail \/ NewPingFail \/ NewOK \/ MainConnectFatal \/ MainSetup
  \/ MainLog \/ MainLogged \/ MainFinalFlush \/ MainFlushFatal \/ MainReturn

NextMain == MainSteps \/ HookStepsOK \/ StoreFailures

SpecMain == InitMain /\ [][NextMain]_vars

(* ---- properties ---- *)
Returned(c, kind) == pc[c] = "idle" /\ call[c] = kind

\* the batch of entries number (k-1)*b+1 .. k*b
FullBatch(k, b) == [j \in 1..b |-> (k - 1) * b + j]

\* C1: single caller, store that never fails: once an explicit flush has
\* returned, the committed batches, concatenated in commit order, are exactly
\* the entries passed to Fire, in call order.
C1_OrderPreserved ==
  \A c \in active :
    Returned(c, "flush") => Flatten(committed) = fired

C1_Witness ==
  /\ Returned(1, "flush") /\ flushCalls = 1
  /\ batchSize = 3 /\ Len(fired) = 7 /\ Len(committed) = 3

\* C2 as stated: N calls to Fire alone leave ceil(N/B) committed batches, and
\* a final flush of a non-empty remainder adds one more.
C2_CeilBatches ==
  \A c \in active :
    /\ (pc[c] = "idle" /\ flushCalls = 0)
         => Len(committed) = Ceil(Len(fired), batchSize)
    /\ (Returned(c, "flush") /\ flushCalls = 1 /\ fsnapE[c] # <<>>)
         => Len(committed) = Ceil(Len(fired), batchSize) + 1

\* C2 amended: N calls to Fire alone leave floor(N/B) committed batches, and
\* a final flush of a non-empty remainder adds exactly one more.
C2_FloorBatches ==
  \A c \in active :
    /\ (pc[c] = "idle" /\ flushCalls = 0)
         => Len(committed) = Len(fired) \div batchSize
    /\ (Returned(c, "flush") /\ flushCalls = 1 /\ fsnapE[c] # <<>>)
         => /\ Len(fsnapC[c]) = Len(fired) \div batchSize
            /\ Len(committed) = Len(fsnapC[c]) + 1

C2_Witness ==
  /\ Returned(1, "flush") /\ flushCalls = 1 /\ fsnapE[1] # <<>>
  /\ Len(fired) = 7 /\ batchSize = 3 /\ Len(committed) = 3

\* C3: after n calls to Fire and no other call, floor(n/B) flushes have been
\* triggered, the k-th committed the k-th run of B entries, and the buffer
\* holds the last n mod B entries.
C3_FloorAndRemainder ==
  \A c \in active :
    (pc[c] = "idle" /\ flushCalls = 0) =>
      LET n == Len(fired)
          q == n \div batchSize
      IN /\ triggered = q
         /\ Len(committed) = q
         /\ \A k \in 1..q : committed[k] = FullBatch(k, batchSize)
         /\ Len(entries) = n % batchSize
         /\ entries = SubSeq(fired, q * batchSize + 1, n)

C3_Witness ==
  /\ pc[1] = "idle" /\ flushCalls = 0
  /\ batchSize = 5 /\ Len(fired) = 10 /\ triggered = 2
  /\ committed = <<<<1, 2, 3, 4, 5>>, <<6, 7, 8, 9, 10>>>>
  /\ entries = <<>>

\* C4 as stated: a flush called on an empty buffer returns nil, does nothing
\* on the store and leaves the buffer empty, whatever the store does.
C4_EmptyFlushNoOp ==
  \A c \in active :
    (call[c] = "flush" /\ fsnapE[c] = <<>>) =>
      /\ ops[c] = 0
      /\ committed = fsnapC[c]
      /\ pc[c] = "idle" => (flushRet[c] = "nil" /\ entries = <<>>)

\* C5: while a flush is running and after it has failed, the store holds what
\* it held when the flush started; after it has succeeded, the store holds
\* that and the whole batch, as one more committed batch.
C5_AllOrNothing ==
  \A c \in active :
    /\ pc[c] \in {"prepare", "range", "exec", "commit"}
         => committed = fsnapC[c]
    /\ (pc[c] \in {"flush_ret", "fire_ret"} /\ flushRet[c] # "nil")
         => committed = fsnapC[c]
    /\ (pc[c] \in {"flush_ret", "fire_ret"} /\ flushRet[c] = "nil")
         => committed = Append(fsnapC[c], fsnapE[c])

C5_Witness ==
  /\ pc[1] = "flush_ret" /\ flushRet[1] = "ErrExec"
  /\ Len(txRows[1]) = 2 /\ Len(fsnapE[1]) = 3

\* C6: Fire returns an error exactly when its append brought the buffer to
\* batchSize or more and the flush it triggered failed, and the error is the
\* one of flush; below batchSize it returns nil and the store is not used.
C6_FireError ==
  \A c \in active :
    Returned(c, "Fire") =>
      LET after == Len(snapE[c]) + 1
      IN /\ fireRet[c] # "nil" <=> (after >= batchSize /\ flushRet[c] # "nil")
         /\ fireRet[c] # "nil" => fireRet[c] = flushRet[c]
         /\ after < batchSize => (fireRet[c] = "nil" /\ ops[c] = 0)

C6_Witness ==
  /\ Returned(1, "Fire") /\ fireRet[1] = "ErrCommit"
  /\ Len(snapE[1]) + 1 >= batchSize

\* C7 as stated: when opening or pinging the connection fails,
\* NewClickHouseHook returns an error and makes no hook; a hook it returns has
\* an empty buffer and both steps succeeded.
C7_ConnectErrorReturned ==
  /\ connFail # "none" => (ctorRet = "err" /\ ~hookMade)
  /\ (mpc = "newret" /\ ctorRet = "hook")
       => (connFail = "none" /\ hookMade /\ entries = <<>>)

\* C8 as stated: once the hook is constructed, the process has closed the
\* connection handle when it exits.
C8_ClosedOnExit ==
  (mpc = "exited" /\ hookMade) => dbState = "closed"

\* C9 as stated: the buffer never holds more than batchSize entries when a
\* call has returned, and no batch given to the store has more than
\* batchSize rows, whatever the store does.
C9_BufferBounded ==
  \A c \in active :
    /\ pc[c] = "idle" => Len(entries) <= batchSize
    /\ Len(txRows[c]) <= batchSize
    /\ \A k \in 1..Len(committed) : Len(committed[k]) <= batchSize

\* C9 amended: the buffer holds more than batchSize entries when a call has
\* returned only if the most recent flush failed, and a flush gives the store
\* more than batchSize rows only if the flush before it failed.
C9_BoundedUnlessFlushFailed ==
  \A c \in active :
    /\ (pc[c] = "idle" /\ ~lastFailed) => Len(entries) <= batchSize
    /\ (pc[c] \in {"exec", "commit"} /\ ~lastFailed)
         => (Len(rng[c]) <= batchSize /\ Len(txRows[c]) <= batchSize)
    /\ (pc[c] = "clear" /\ ~lastFailed)
         => Len(committed[Len(committed)]) <= batchSize

C9_Witness ==
  /\ Returned(1, "Fire") /\ lastFailed
  /\ Len(entries) > batchSize

\* C10: an explicit flush of k entries, 0 < k < batchSize, commits one batch
\* holding exactly these entries in order, and empties the buffer.
C10_ExplicitFlushBelowThreshold ==
  \A c \in active :
    (Returned(c, "flush") /\ fsnapE[c] # <<>> /\ Len(fsnapE[c]) < batchSize)
      => /\ committed = Append(fsnapC[c], fsnapE[c])
         /\ entries = <<>>

C10_Witness ==
  /\ Returned(1, "flush") /\ batchSize = 5
  /\ fsnapE[1] = <<1, 2, 3>> /\ committed = <<<<1, 2, 3>>>>
  /\ entries = <<>>

\* C11: a flush that has failed has left the buffer as it was when flush was
\* called; the buffer changes only by the clear of line 71, which runs only
\* after the commit of this flush has stored the batch.
C11_FailedFlushKeepsBuffer ==
  \A c \in active :
    /\ pc[c] \in {"begin", "prepare", "range", "exec", "commit", "clear"}
         => entries = fsnapE[c]
    /\ (pc[c] \in {"flush_ret", "fire_ret"} /\ flushRet[c] # "nil")
         => entries = fsnapE[c]
    /\ pc[c] = "clear" => committed = Append(fsnapC[c], fsnapE[c])
    /\ (pc[c] \in {"flush_ret", "fire_ret"} /\ flushRet[c] = "nil")
         => (entries = <<>> /\ committed = Append(fsnapC[c], fsnapE[c]))

C11_Witness ==
  /\ pc[1] = "flush_ret" /\ flushRet[1] = "ErrCommit"
  /\ Len(txRows[1]) = 2 /\ entries = <<1, 2>>

\* C12 as stated: when flush has returned, no transaction it began is still
\* open in the store.
C12_NoOpenTransaction ==
  \A c \in active :
    pc[c] \in {"idle", "fire_ret"} => openTx = 0

\* C13: a call of Fire calls db.Begin once if its append reached batchSize
\* and never otherwise, a call of flush calls db.Begin exactly once, whether
\* the transaction then succeeds or fails; no step begins a transaction
\* outside such a call.
C13_NoRetry ==
  \A c \in active :
    /\ begins[c] <= 1
    /\ Returned(c, "flush") => begins[c] = 1
    /\ Returned(c, "Fire")
         => begins[c] = IF Len(snapE[c]) + 1 >= batchSize THEN 1 ELSE 0
    /\ (begins[c] > 0 \/ openTx > 0) => (flushCalls + triggered > 0)
    /\ openTx <= flushCalls + triggered

C13_Witness ==
  /\ Returned(1, "Fire") /\ fireRet[1] = "ErrExec" /\ begins[1] = 1
  /\ Len(fired) >= 3

Count(sq, x) == Cardinality({i \in 1..Len(sq) : sq[i] = x})

Quiet == \A c \in active : pc[c] = "idle"

Serialized == Cardinality(active) = 1 \/ guard = "mutex"

\* an entry passed to Fire that is neither in the buffer nor in the store
\* although no call is in progress
Lost(x) == Quiet /\ Count(entries, x) = 0 /\ Count(Flatten(committed), x) = 0

\* an entry that the store holds more than once
Duplicated(x) == Count(Flatten(committed), x) > 1

\* C14: with a single caller, or with every call wrapped in one lock, no
\* entry passed to Fire is lost and none is committed more than once; with
\* two callers and no lock a state with a lost entry is reachable (the
\* witness).
C14_SerializedCallsSafe ==
  Serialized =>
    \A x \in 1..Len(fired) :
      /\ ~Lost(x)
      /\ ~Duplicated(x)
      /\ Quiet => Count(entries, x) + Count(Flatten(committed), x) = 1

C14_Witness ==
  /\ ~Serialized /\ Quiet
  /\ call[1] = "flush" /\ call[2] = "Fire"
  /\ fired = <<1, 2>> /\ committed = <<<<1>>>> /\ entries = <<>>
  /\ Lost(2)

\* C15: single caller, store that may fail any step: whenever no call is in
\* progress, the entries passed to Fire are the committed batches in commit
\* order followed by the buffer.
C15_NothingLostNothingTwice ==
  Quiet => fired = Flatten(committed) \o entries

C15_Witness ==
  /\ Quiet /\ lastFailed /\ committed # <<>>
  /\ Len(entries) > batchSize /\ Len(fired) = 5

\* C16: a Fire whose flush failed leaves the buffer at batchSize or more,
\* one entry longer than before; a buffer of batchSize or more is there only
\* after a failed flush; a Fire called on such a buffer flushes the whole
\* buffer again, and if that flush succeeds all of it is committed as one
\* batch in append order and the buffer is empty.
C16_RetryOnNextFire ==
  \A c \in active :
    /\ (Returned(c, "Fire") /\ fireRet[c] # "nil")
         => /\ Len(entries) >= batchSize
            /\ entries = Append(snapE[c], arg[c])
    /\ (pc[c] = "idle" /\ Len(entries) >= batchSize) => lastFailed
    /\ (Returned(c, "Fire") /\ Len(snapE[c]) >= batchSize)
         => /\ begins[c] = 1
            /\ fsnapE[c] = Append(snapE[c], arg[c])
            /\ fireRet[c] = "nil"
                 => /\ committed = Append(fsnapC[c], Append(snapE[c], arg[c]))
                    /\ entries = <<>>

C16_Witness ==
  /\ Returned(1, "Fire") /\ fireRet[1] = "nil"
  /\ batchSize = 2 /\ Len(snapE[1]) = 4
  /\ committed = <<<<1, 2, 3, 4, 5>>>> /\ entries = <<>>

\* C17: a hook made with batchSize <= 0 behaves as one made with batchSize 1:
\* every Fire triggers a flush of exactly the entry it appended, and the
\* buffer is empty when Fire has returned; the test of line 39 is true after
\* every append.
C17_NonPositiveBatchSize ==
  \A c \in active :
    /\ pc[c] = "idle" => entries = <<>>
    /\ pc[c] = "fire_check"
         => (entries = <<arg[c]>> /\ ShouldFlush(Len(entries), batchSize))
    /\ Returned(c, "Fire")
         => /\ triggered = Len(fired)
            /\ fsnapE[c] = <<arg[c]>>
            /\ committed = Append(fsnapC[c], <<arg[c]>>)
            /\ fireRet[c] = "nil"

C17_Witness ==
  /\ batchSize = -1 /\ Returned(1, "Fire")
  /\ Len(fired) = 3 /\ triggered = 3 /\ flushCalls = 0
  /\ committed = <<<<1>>, <<2>>, <<3>>>> /\ entries = <<>>
====
